---- MODULE Spec2Model ----
(***************************************************************************)
(* DpsConfig (src/index.ts): a configuration container whose fields are    *)
(* loaded from process.env by the constructor, overwritten by setters and  *)
(* read through getters that apply defaults.                               *)
(*                                                                         *)
(* A JavaScript string is a sequence of UTF-16 code units.  It is written  *)
(* here as a tuple of one-character strings, <<"a", "p", "i">>; a code     *)
(* unit outside printable ASCII is written as a token such as "U+00E9".    *)
(* An optional value (T | undefined) is a set: {} is undefined and {v} is  *)
(* the value v.                                                            *)
(***************************************************************************)
EXTENDS Integers, Sequences, FiniteSets, TLC

\* ------------------------------------------------------------------------
\* State
\* ------------------------------------------------------------------------

VARIABLES
    env,        \* process.env: variable name -> value, Undefined when not set
    cfg,        \* the fields of each DpsConfig object
    prefixOf,   \* the envPrefix each object was constructed with, {} before
    calls       \* environment writes and setter calls made so far

vars == <<env, cfg, prefixOf, calls>>

\* ------------------------------------------------------------------------
\* Optional values
\* ------------------------------------------------------------------------

Undefined == {}

Some(v) == {v}

ValueOf(o) == CHOOSE v \in o : TRUE

\* x ?? d
Nullish(o, d) == IF o = Undefined THEN d ELSE ValueOf(o)

\* ------------------------------------------------------------------------
\* Characters and code units
\* ------------------------------------------------------------------------

\* Printable ASCII, code units 32..126 in order (the grave accent, 96, is
\* written as the token "U+0060").
Ascii ==
    << " ", "!", "\"", "#", "$", "%", "&", "'", "(", ")", "*", "+", ",", "-", ".", "/",
       "0", "1", "2", "3", "4", "5", "6", "7", "8", "9", ":", ";", "<", "=", ">", "?",
       "@", "A", "B", "C", "D", "E", "F", "G", "H", "I", "J", "K", "L", "M", "N", "O",
       "P", "Q", "R", "S", "T", "U", "V", "W", "X", "Y", "Z", "[", "\\", "]", "^", "_",
       "U+0060", "a", "b", "c", "d", "e", "f", "g", "h", "i", "j", "k", "l", "m", "n", "o",
       "p", "q", "r", "s", "t", "u", "v", "w", "x", "y", "z", "{", "|", "}", "~" >>

\* The code units outside ASCII that the inputs use: e-acute, the euro sign,
\* the two surrogates of U+1F600, the byte order mark and the replacement
\* character.
NonAscii ==
    { <<"U+00E9", 233>>, <<"U+20AC", 8364>>, <<"U+D83D", 55357>>,
      <<"U+DE00", 56832>>, <<"U+FEFF", 65279>>, <<"U+FFFD", 65533>> }

CodeUnit(c) ==
    IF \E n \in DOMAIN Ascii : Ascii[n] = c
    THEN 31 + (CHOOSE n \in DOMAIN Ascii : Ascii[n] = c)
    ELSE (CHOOSE p \in NonAscii : p[1] = c)[2]

CharOf(u) ==
    IF u >= 32 /\ u <= 126
    THEN Ascii[u - 31]
    ELSE (CHOOSE p \in NonAscii : p[2] = u)[1]

Digits == <<"0", "1", "2", "3", "4", "5", "6", "7", "8", "9">>

IsDigit(c) == \E n \in DOMAIN Digits : Digits[n] = c

DigitValue(c) == (CHOOSE n \in DOMAIN Digits : Digits[n] = c) - 1

\* The white space parseInt strips (among the characters of Ascii: the space).
IsWhiteSpace(c) == c = " "

\* ------------------------------------------------------------------------
\* Number <-> string
\* ------------------------------------------------------------------------

RECURSIVE NatToString(_)
NatToString(n) ==
    IF n < 10 THEN <<Digits[n + 1]>>
    ELSE NatToString(n \div 10) \o <<Digits[(n % 10) + 1]>>

\* `${port}` for an integer port.
NumberToString(n) == IF n < 0 THEN <<"-">> \o NatToString(0 - n) ELSE NatToString(n)

RECURSIVE SkipWhiteSpace(_)
SkipWhiteSpace(s) ==
    IF s # <<>> /\ IsWhiteSpace(Head(s)) THEN SkipWhiteSpace(Tail(s)) ELSE s

RECURSIVE DigitPrefix(_)
DigitPrefix(s) ==
    IF s # <<>> /\ IsDigit(Head(s)) THEN <<Head(s)>> \o DigitPrefix(Tail(s)) ELSE <<>>

RECURSIVE DigitsValue(_, _)
DigitsValue(s, acc) ==
    IF s = <<>> THEN acc ELSE DigitsValue(Tail(s), 10 * acc + DigitValue(Head(s)))

\* parseInt(value, 10): leading white space is skipped, an optional sign is
\* read, then the longest run of decimal digits; whatever follows is ignored.
\* NaN (no digit at that place) is Undefined here.
parseInt(value) ==
    LET t == SkipWhiteSpace(value)
        signed == t # <<>> /\ Head(t) \in {"+", "-"}
        body == IF signed THEN Tail(t) ELSE t
        ds == DigitPrefix(body)
    IN  IF ds = <<>> THEN Undefined
        ELSE IF signed /\ Head(t) = "-" THEN Some(0 - DigitsValue(ds, 0))
        ELSE Some(DigitsValue(ds, 0))

\* ------------------------------------------------------------------------
\* UTF-8
\* ------------------------------------------------------------------------

IsHighSurrogate(u) == u >= 55296 /\ u <= 56319

IsLowSurrogate(u) == u >= 56320 /\ u <= 57343

Utf8Bytes(cp) ==
    IF cp < 128 THEN <<cp>>
    ELSE IF cp < 2048 THEN <<192 + (cp \div 64), 128 + (cp % 64)>>
    ELSE IF cp < 65536
    THEN <<224 + (cp \div 4096), 128 + ((cp \div 64) % 64), 128 + (cp % 64)>>
    ELSE <<240 + (cp \div 262144), 128 + ((cp \div 4096) % 64),
           128 + ((cp \div 64) % 64), 128 + (cp % 64)>>

\* The UTF-8 bytes of s from its k-th code unit on: a surrogate pair is one
\* supplementary code point, an unpaired surrogate is encoded as U+FFFD.
RECURSIVE Utf8From(_, _)
Utf8From(s, k) ==
    IF k > Len(s) THEN <<>>
    ELSE LET u == CodeUnit(s[k])
         IN  IF IsHighSurrogate(u) /\ k < Len(s) /\ IsLowSurrogate(CodeUnit(s[k + 1]))
             THEN Utf8Bytes(65536 + (u - 55296) * 1024 + (CodeUnit(s[k + 1]) - 56320))
                      \o Utf8From(s, k + 2)
             ELSE IF IsHighSurrogate(u) \/ IsLowSurrogate(u)
             THEN Utf8Bytes(65533) \o Utf8From(s, k + 1)
             ELSE Utf8Bytes(u) \o Utf8From(s, k + 1)

\* new TextEncoder().encode(s): the UTF-8 bytes of the string s.
TextEncode(s) == Utf8From(s, 1)

IsContinuation(b) == b >= 128 /\ b <= 191

\* The second byte a lead byte admits: E0, ED, F0 and F4 narrow the range, so
\* that overlong forms, surrogates and values above U+10FFFF are malformed.
SecondByteOk(lead, b) ==
    b >= (IF lead = 224 THEN 160 ELSE IF lead = 240 THEN 144 ELSE 128)
        /\ b <= (IF lead = 237 THEN 159 ELSE IF lead = 244 THEN 143 ELSE 191)

\* The code points of a byte sequence; a byte that starts no well-formed
\* sequence decodes to U+FFFD.
RECURSIVE Utf8CodePoints(_)
Utf8CodePoints(bytes) ==
    IF bytes = <<>> THEN <<>>
    ELSE LET b == Head(bytes)
             n == Len(bytes)
             Second == n >= 2 /\ SecondByteOk(b, bytes[2])
             Cont(k) == n >= k /\ IsContinuation(bytes[k])
         IN  IF b < 128 THEN <<b>> \o Utf8CodePoints(Tail(bytes))
             ELSE IF b >= 194 /\ b <= 223 /\ Second
             THEN <<(b - 192) * 64 + (bytes[2] - 128)>>
                      \o Utf8CodePoints(SubSeq(bytes, 3, n))
             ELSE IF b >= 224 /\ b <= 239 /\ Second /\ Cont(3)
             THEN <<(b - 224) * 4096 + (bytes[2] - 128) * 64 + (bytes[3] - 128)>>
                      \o Utf8CodePoints(SubSeq(bytes, 4, n))
             ELSE IF b >= 240 /\ b <= 244 /\ Second /\ Cont(3) /\ Cont(4)
             THEN <<(b - 240) * 262144 + (bytes[2] - 128) * 4096
                        + (bytes[3] - 128) * 64 + (bytes[4] - 128)>>
                      \o Utf8CodePoints(SubSeq(bytes, 5, n))
             ELSE <<65533>> \o Utf8CodePoints(Tail(bytes))

RECURSIVE CodeUnitsOf(_)
CodeUnitsOf(cps) ==
    IF cps = <<>> THEN <<>>
    ELSE LET cp == Head(cps)
         IN  IF cp >= 65536
             THEN <<55296 + ((cp - 65536) \div 1024), 56320 + ((cp - 65536) % 1024)>>
                      \o CodeUnitsOf(Tail(cps))
             ELSE <<cp>> \o CodeUnitsOf(Tail(cps))

\* new TextDecoder().decode(bytes): the string of a UTF-8 byte sequence.
\* A leading byte order mark (EF BB BF) is dropped.
TextDecode(bytes) ==
    LET hasBOM == Len(bytes) >= 3 /\ SubSeq(bytes, 1, 3) = <<239, 187, 191>>
        payload == IF hasBOM THEN SubSeq(bytes, 4, Len(bytes)) ELSE bytes
        units == CodeUnitsOf(Utf8CodePoints(payload))
    IN  [n \in DOMAIN units |-> CharOf(units[n])]

\* No unpaired surrogate in s from its k-th code unit on.
RECURSIVE WellFormedFrom(_, _)
WellFormedFrom(s, k) ==
    IF k > Len(s) THEN TRUE
    ELSE IF IsHighSurrogate(CodeUnit(s[k]))
    THEN k < Len(s) /\ IsLowSurrogate(CodeUnit(s[k + 1])) /\ WellFormedFrom(s, k + 2)
    ELSE ~IsLowSurrogate(CodeUnit(s[k])) /\ WellFormedFrom(s, k + 1)

IsWellFormed(s) == WellFormedFrom(s, 1)

StartsWithBOM(s) == s # <<>> /\ Head(s) = "U+FEFF"

\* ------------------------------------------------------------------------
\* Environment variables
\* ------------------------------------------------------------------------

\* The variables the constructor reads, by the loader that reads them.
StringKeys ==
    { "DPS_DOMAIN", "DPS_API_PATH", "DPS_AUTH_API_SUBDOMAIN", "DPS_AUTH_API_PROTOCOL",
      "DPS_AUTH_API_SQLITE_MAIN_FILE_PATH", "DPS_AUTH_API_SQLITE_COLLECTION_FILE_PATH",
      "DPS_AUTH_API_SQLITE_SESSION_FILE_PATH", "DPS_AUTH_API_SESSION_SECRET" }

BoolKeys == { "DPS_DEVELOPMENT_MODE", "DPS_AUTH_API_INSECURE_COOKIE" }

NumberKeys ==
    { "DPS_AUTH_API_PORT", "DPS_AUTH_API_SQLITE_MAIN_POOL_SIZE",
      "DPS_AUTH_API_SQLITE_COLLECTION_POOL_SIZE", "DPS_AUTH_API_SQLITE_SESSION_POOL_SIZE",
      "DPS_AUTH_API_SESSION_TTL_SECONDS" }

Keys == StringKeys \cup BoolKeys \cup NumberKeys

\* The envPrefix arguments: the default "" and Vite's "VITE_".
Prefixes == { "", "VITE_" }

EnvNames == { p \o k : p \in Prefixes, k \in Keys }

\* The key a variable name ends with.
KeyOfName(name) == CHOOSE k \in Keys : \E p \in Prefixes : name = p \o k

\* process.env with no variable of EnvNames set.
EmptyEnv == [name \in EnvNames |-> Undefined]

\* ------------------------------------------------------------------------
\* Loaders
\* ------------------------------------------------------------------------

\* Mutant: the length test dropped, so that "" is kept as a value.
loadEnvString_KeepsEmpty(e, prefix, key) == e[prefix \o key]

\* Mutant: the unprefixed variable is read when the prefixed one is not set.
loadEnvString_FallsBack(e, prefix, key) ==
    LET own == e[prefix \o key]
        value == IF own = Undefined THEN e[key] ELSE own
    IN  IF value # Undefined /\ ValueOf(value) # <<>> /\ Len(ValueOf(value)) > 0
        THEN value
        ELSE Undefined

loadEnvString(e, prefix, key) ==
    LET value == e[prefix \o key]
    IN  IF value # Undefined /\ ValueOf(value) # <<>> /\ Len(ValueOf(value)) > 0
        THEN value
        ELSE Undefined

\* Mutant: a two-way parse after a truthiness test, as in the other loaders,
\* so that "" is unset.
loadEnvBool_EmptyIsUnset(e, prefix, key) ==
    LET value == e[prefix \o key]
    IN  IF value = Undefined \/ value = Some(<<>>) THEN Undefined
        ELSE Some(value = Some(<<"Y">>))

loadEnvBool(e, prefix, key) ==
    LET value == e[prefix \o key]
    IN  IF value = Some(<<"Y">>) THEN Some(TRUE)
        ELSE IF value = Undefined THEN Undefined
        ELSE Some(FALSE)

loadEnvNumber(e, prefix, key) ==
    LET value == e[prefix \o key]
    IN  IF value = Undefined \/ Len(ValueOf(value)) = 0 THEN Undefined
        ELSE parseInt(ValueOf(value))

\* ------------------------------------------------------------------------
\* DpsConfig
\* ------------------------------------------------------------------------

Fields ==
    { "domain", "apiPath", "developmentMode", "authApiSubdomain", "authApiPort",
      "authApiProtocol", "authApiInsecureCookie", "authApiSqliteMainFilePath",
      "authApiSqliteMainPoolSize", "authApiSqliteCollectionFilePath",
      "authApiSqliteCollectionPoolSize", "authApiSqliteSessionFilePath",
      "authApiSqliteSessionPoolSize", "authApiSessionSecret",
      "authApiSessionTtlSeconds" }

\* The fields of an object the constructor has not run on.
Unbuilt == [f \in Fields |-> Undefined]

\* new DpsConfig(envPrefix) under the environment e.
NewDpsConfig(e, envPrefix) ==
    [ domain |-> loadEnvString(e, envPrefix, "DPS_DOMAIN"),
      apiPath |-> loadEnvString(e, envPrefix, "DPS_API_PATH"),
      developmentMode |-> loadEnvBool(e, envPrefix, "DPS_DEVELOPMENT_MODE"),
      authApiSubdomain |-> loadEnvString(e, envPrefix, "DPS_AUTH_API_SUBDOMAIN"),
      authApiPort |-> loadEnvNumber(e, envPrefix, "DPS_AUTH_API_PORT"),
      authApiProtocol |-> loadEnvString(e, envPrefix, "DPS_AUTH_API_PROTOCOL"),
      authApiInsecureCookie |-> loadEnvBool(e, envPrefix, "DPS_AUTH_API_INSECURE_COOKIE"),
      authApiSqliteMainFilePath |->
          loadEnvString(e, envPrefix, "DPS_AUTH_API_SQLITE_MAIN_FILE_PATH"),
      authApiSqliteMainPoolSize |->
          loadEnvNumber(e, envPrefix, "DPS_AUTH_API_SQLITE_MAIN_POOL_SIZE"),
      authApiSqliteCollectionFilePath |->
          loadEnvString(e, envPrefix, "DPS_AUTH_API_SQLITE_COLLECTION_FILE_PATH"),
      authApiSqliteCollectionPoolSize |->
          loadEnvNumber(e, envPrefix, "DPS_AUTH_API_SQLITE_COLLECTION_POOL_SIZE"),
      authApiSqliteSessionFilePath |->
          loadEnvString(e, envPrefix, "DPS_AUTH_API_SQLITE_SESSION_FILE_PATH"),
      authApiSqliteSessionPoolSize |->
          loadEnvNumber(e, envPrefix, "DPS_AUTH_API_SQLITE_SESSION_POOL_SIZE"),
      authApiSessionSecret |-> loadEnvString(e, envPrefix, "DPS_AUTH_API_SESSION_SECRET"),
      authApiSessionTtlSeconds |->
          loadEnvNumber(e, envPrefix, "DPS_AUTH_API_SESSION_TTL_SECONDS") ]

\* A number | undefined in a condition: undefined and 0 are falsy.
Truthy(o) == o # Undefined /\ ValueOf(o) # 0

\* ---- getters: c is the object's record of fields ----

\* Mutant: an unset domain is read from process.env at the time of the call.
getDomain_RereadsEnv(c) ==
    Nullish(IF c.domain # Undefined THEN c.domain ELSE loadEnvString(env, "", "DPS_DOMAIN"),
            <<"d", "p", "s", ".", "l", "o", "c", "a", "l", "h", "o", "s", "t">>)

getDomain(c) ==
    Nullish(c.domain, <<"d", "p", "s", ".", "l", "o", "c", "a", "l", "h", "o", "s", "t">>)

getApiPath(c) == Nullish(c.apiPath, <<"a", "p", "i">>)

getDevelopmentMode(c) == Nullish(c.developmentMode, FALSE)

getAuthApiSubdomain(c) == Nullish(c.authApiSubdomain, <<"a", "u", "t", "h">>)

getAuthApiPort(c) == c.authApiPort

getAuthApiProtocol(c) == Nullish(c.authApiProtocol, <<"h", "t", "t", "p", "s">>)

getAuthApiInsecureCookie(c) == Nullish(c.authApiInsecureCookie, FALSE)

getAuthApiSqliteMainFilePath(c) ==
    Nullish(c.authApiSqliteMainFilePath,
            <<"d", "a", "t", "a", "/", "m", "a", "i", "n", "-",
              "d", "e", "v", "e", "l", "o", "p", "m", "e", "n", "t", ".", "d", "b">>)

\* Mutant: || in place of ??, so that a stored 0 yields the default.
getAuthApiSqliteMainPoolSize_Or(c) ==
    IF Truthy(c.authApiSqliteMainPoolSize) THEN ValueOf(c.authApiSqliteMainPoolSize) ELSE 1

getAuthApiSqliteMainPoolSize(c) == Nullish(c.authApiSqliteMainPoolSize, 1)

getAuthApiSqliteCollectionFilePath(c) ==
    Nullish(c.authApiSqliteCollectionFilePath,
            <<"d", "a", "t", "a", "/", "c", "o", "l", "l", "e", "c", "t", "i", "o", "n", "-",
              "d", "e", "v", "e", "l", "o", "p", "m", "e", "n", "t", ".", "d", "b">>)

getAuthApiSqliteCollectionPoolSize(c) == Nullish(c.authApiSqliteCollectionPoolSize, 1)

getAuthApiSqliteSessionFilePath(c) ==
    Nullish(c.authApiSqliteSessionFilePath,
            <<"d", "a", "t", "a", "/", "s", "e", "s", "s", "i", "o", "n", "-",
              "d", "e", "v", "e", "l", "o", "p", "m", "e", "n", "t", ".", "d", "b">>)

getAuthApiSqliteSessionPoolSize(c) == Nullish(c.authApiSqliteSessionPoolSize, 1)

getAuthApiSessionSecret(c) == c.authApiSessionSecret

\* Mutant: a truthiness test, so that the empty secret has no bytes.
getAuthApiSessionSecretBytes_Truthy(c) ==
    IF c.authApiSessionSecret = Undefined \/ c.authApiSessionSecret = Some(<<>>)
    THEN Undefined
    ELSE Some(TextEncode(ValueOf(c.authApiSessionSecret)))

getAuthApiSessionSecretBytes(c) ==
    IF c.authApiSessionSecret = Undefined THEN Undefined
    ELSE Some(TextEncode(ValueOf(c.authApiSessionSecret)))

getAuthApiSessionTtlSeconds(c) == Nullish(c.authApiSessionTtlSeconds, 1209600)

\* Mutant: the port tested against undefined, so that port 0 prints ":0".
getAuthApiUrl_PortDefined(c) ==
    LET port == getAuthApiPort(c)
        portString == IF port # Undefined THEN <<":">> \o NumberToString(ValueOf(port)) ELSE <<>>
    IN  getAuthApiProtocol(c) \o <<":", "/", "/">> \o getAuthApiSubdomain(c) \o <<".">>
            \o getDomain(c) \o portString \o <<"/">> \o getApiPath(c)

getAuthApiUrl(c) ==
    LET protocol == getAuthApiProtocol(c)
        authSub == getAuthApiSubdomain(c)
        domain == getDomain(c)
        apiPath == getApiPath(c)
        port == getAuthApiPort(c)
        portString == IF Truthy(port) THEN <<":">> \o NumberToString(ValueOf(port)) ELSE <<>>
    IN  protocol \o <<":", "/", "/">> \o authSub \o <<".">> \o domain \o portString
            \o <<"/">> \o apiPath

\* What the public getters of an object return, by getter.
Getters(c) ==
    [ getDomain |-> getDomain(c),
      getApiPath |-> getApiPath(c),
      getDevelopmentMode |-> getDevelopmentMode(c),
      getAuthApiSubdomain |-> getAuthApiSubdomain(c),
      getAuthApiPort |-> getAuthApiPort(c),
      getAuthApiProtocol |-> getAuthApiProtocol(c),
      getAuthApiInsecureCookie |-> getAuthApiInsecureCookie(c),
      getAuthApiSqliteMainFilePath |-> getAuthApiSqliteMainFilePath(c),
      getAuthApiSqliteMainPoolSize |-> getAuthApiSqliteMainPoolSize(c),
      getAuthApiSqliteCollectionFilePath |-> getAuthApiSqliteCollectionFilePath(c),
      getAuthApiSqliteCollectionPoolSize |-> getAuthApiSqliteCollectionPoolSize(c),
      getAuthApiSqliteSessionFilePath |-> getAuthApiSqliteSessionFilePath(c),
      getAuthApiSqliteSessionPoolSize |-> getAuthApiSqliteSessionPoolSize(c),
      getAuthApiSessionSecret |-> getAuthApiSessionSecret(c),
      getAuthApiSessionSecretBytes |-> getAuthApiSessionSecretBytes(c),
      getAuthApiSessionTtlSeconds |-> getAuthApiSessionTtlSeconds(c),
      getAuthApiUrl |-> getAuthApiUrl(c) ]

\* ------------------------------------------------------------------------
\* Objects
\* ------------------------------------------------------------------------

\* The objects a run creates, as in the tests (c1, c2).
Instances == { "c1", "c2" }

Built(i) == prefixOf[i] # Undefined

\* ------------------------------------------------------------------------
\* Bounds and inputs
\* ------------------------------------------------------------------------

\* Environment writes plus setter calls in one run.
MaxCalls == 2

\* Settings whose variables the starting environment of SpecLoad may hold.
MaxEnvKeys == 1

\* The values a variable read by each loader is given.
StringInputs == { <<>>, <<"v", "i", "t", "e", ".", "l", "o", "c", "a", "l">>, <<"s">> }

BoolInputs == { <<>>, <<"Y">>, <<"N">>, <<"1">>, <<"y">>, <<"Y", "E", "S">> }

NumberInputs ==
    { <<>>, <<"8">>, <<"0">>, <<"-", "3">>, <<"8", "a", "b", "c">>, <<"3", ".", "5">>,
      <<"n", "o", "t", "-", "a", "-", "n", "u", "m", "b", "e", "r">> }

EnvInputs(name) ==
    IF KeyOfName(name) \in StringKeys THEN StringInputs
    ELSE IF KeyOfName(name) \in BoolKeys THEN BoolInputs
    ELSE NumberInputs

\* The values a test assigns to a variable while objects are alive.
WriteInputs(name) ==
    IF KeyOfName(name) \in StringKeys THEN { <<"s">> }
    ELSE IF KeyOfName(name) \in BoolKeys THEN { <<"Y">> }
    ELSE { <<"8">> }

\* Setter arguments.
StringArgs == { <<>>, <<"v", "1">> }

NumberArgs == { 0, -1, 3000 }

SecretArgs ==
    { <<>>, <<"k">>, <<"U+00E9", "U+20AC", "U+D83D", "U+DE00">>, <<"U+D83D">>,
      <<"U+FEFF", "k">> }

OptionsOf(S) == { Some(v) : v \in S } \cup { Undefined }

\* env is base with each variable of names either left as it is in base or
\* set to one of its inputs.
RECURSIVE EnvFrom(_, _)
EnvFrom(names, base) ==
    IF names = {} THEN env = base
    ELSE LET name == CHOOSE n \in names : TRUE
         IN  \E o \in OptionsOf(EnvInputs(name)) :
                 EnvFrom(names \ { name }, [base EXCEPT ![name] = o])

\* ------------------------------------------------------------------------
\* Initial states
\* ------------------------------------------------------------------------

\* A clean environment (the tests' afterEach), no object constructed.
Init ==
    /\ env = EmptyEnv
    /\ cfg = [i \in Instances |-> Unbuilt]
    /\ prefixOf = [i \in Instances |-> Undefined]
    /\ calls = 0

\* An environment that sets the variables of at most MaxEnvKeys settings,
\* under either prefix, each to one of its inputs; no object constructed.
InitLoad ==
    /\ \E K \in { K \in SUBSET Keys : Cardinality(K) <= MaxEnvKeys } :
           EnvFrom({ p \o k : p \in Prefixes, k \in K }, EmptyEnv)
    /\ cfg = [i \in Instances |-> Unbuilt]
    /\ prefixOf = [i \in Instances |-> Undefined]
    /\ calls = 0

\* ------------------------------------------------------------------------
\* Operations
\* ------------------------------------------------------------------------

\* process.env[name] = value
SetEnv(name, value) ==
    /\ calls < MaxCalls
    /\ env' = [env EXCEPT ![name] = Some(value)]
    /\ calls' = calls + 1
    /\ UNCHANGED <<cfg, prefixOf>>

\* delete process.env[name]
DeleteEnv(name) ==
    /\ calls < MaxCalls
    /\ env[name] # Undefined
    /\ env' = [env EXCEPT ![name] = Undefined]
    /\ calls' = calls + 1
    /\ UNCHANGED <<cfg, prefixOf>>

\* i = new DpsConfig(envPrefix)
Construct(i, envPrefix) ==
    /\ ~Built(i)
    /\ cfg' = [cfg EXCEPT ![i] = NewDpsConfig(env, envPrefix)]
    /\ prefixOf' = [prefixOf EXCEPT ![i] = Some(envPrefix)]
    /\ UNCHANGED <<env, calls>>

\* What every setter call shares: the object exists, and the call is counted.
SetterCall(i) ==
    /\ Built(i)
    /\ calls < MaxCalls
    /\ calls' = calls + 1
    /\ UNCHANGED <<env, prefixOf>>

\* Mutant: a falsy argument is ignored.
setDomain_SkipsEmpty(i, value) ==
    /\ SetterCall(i)
    /\ cfg' = IF value = <<>> THEN cfg ELSE [cfg EXCEPT ![i].domain = Some(value)]

\* Mutant: the field is static, shared by every constructed object.
setDomain_Shared(i, value) ==
    /\ SetterCall(i)
    /\ cfg' = [j \in Instances |->
                  IF Built(j) THEN [cfg[j] EXCEPT !.domain = Some(value)] ELSE cfg[j]]

setDomain(i, value) ==
    /\ SetterCall(i)
    /\ cfg' = [cfg EXCEPT ![i].domain = Some(value)]

setApiPath(i, value) ==
    /\ SetterCall(i)
    /\ cfg' = [cfg EXCEPT ![i].apiPath = Some(value)]

setDevelopmentMode(i, value) ==
    /\ SetterCall(i)
    /\ cfg' = [cfg EXCEPT ![i].developmentMode = Some(value)]

setAuthApiSubdomain(i, value) ==
    /\ SetterCall(i)
    /\ cfg' = [cfg EXCEPT ![i].authApiSubdomain = Some(value)]

\* value is a number | undefined
setAuthApiPort(i, value) ==
    /\ SetterCall(i)
    /\ cfg' = [cfg EXCEPT ![i].authApiPort = value]

setAuthApiProtocol(i, value) ==
    /\ SetterCall(i)
    /\ cfg' = [cfg EXCEPT ![i].authApiProtocol = Some(value)]

setAuthApiInsecureCookie(i, value) ==
    /\ SetterCall(i)
    /\ cfg' = [cfg EXCEPT ![i].authApiInsecureCookie = Some(value)]

setAuthApiSqliteMainFilePath(i, value) ==
    /\ SetterCall(i)
    /\ cfg' = [cfg EXCEPT ![i].authApiSqliteMainFilePath = Some(value)]

\* value is a number | undefined
setAuthApiSqliteMainPoolSize(i, value) ==
    /\ SetterCall(i)
    /\ cfg' = [cfg EXCEPT ![i].authApiSqliteMainPoolSize = value]

setAuthApiSqliteCollectionFilePath(i, value) ==
    /\ SetterCall(i)
    /\ cfg' = [cfg EXCEPT ![i].authApiSqliteCollectionFilePath = Some(value)]

\* value is a number | undefined
setAuthApiSqliteCollectionPoolSize(i, value) ==
    /\ SetterCall(i)
    /\ cfg' = [cfg EXCEPT ![i].authApiSqliteCollectionPoolSize = value]

setAuthApiSqliteSessionFilePath(i, value) ==
    /\ SetterCall(i)
    /\ cfg' = [cfg EXCEPT ![i].authApiSqliteSessionFilePath = Some(value)]

\* value is a number | undefined
setAuthApiSqliteSessionPoolSize(i, value) ==
    /\ SetterCall(i)
    /\ cfg' = [cfg EXCEPT ![i].authApiSqliteSessionPoolSize = value]

\* value is a string | undefined
setAuthApiSessionSecret(i, value) ==
    /\ SetterCall(i)
    /\ cfg' = [cfg EXCEPT ![i].authApiSessionSecret = value]

\* value is a number | undefined
setAuthApiSessionTtlSeconds(i, value) ==
    /\ SetterCall(i)
    /\ cfg' = [cfg EXCEPT ![i].authApiSessionTtlSeconds = value]

\* ------------------------------------------------------------------------
\* Specifications
\* ------------------------------------------------------------------------

DoSetEnv == \E name \in EnvNames : \E value \in WriteInputs(name) : SetEnv(name, value)

DoDeleteEnv == \E name \in EnvNames : DeleteEnv(name)

DoConstruct(i) == \E envPrefix \in Prefixes : Construct(i, envPrefix)

\* Any setter call on the object i.
DoSetter(i) ==
    \/ \E v \in StringArgs : setDomain(i, v)
    \/ \E v \in StringArgs : setApiPath(i, v)
    \/ \E v \in BOOLEAN : setDevelopmentMode(i, v)
    \/ \E v \in StringArgs : setAuthApiSubdomain(i, v)
    \/ \E v \in OptionsOf(NumberArgs) : setAuthApiPort(i, v)
    \/ \E v \in StringArgs : setAuthApiProtocol(i, v)
    \/ \E v \in BOOLEAN : setAuthApiInsecureCookie(i, v)
    \/ \E v \in StringArgs : setAuthApiSqliteMainFilePath(i, v)
    \/ \E v \in OptionsOf(NumberArgs) : setAuthApiSqliteMainPoolSize(i, v)
    \/ \E v \in StringArgs : setAuthApiSqliteCollectionFilePath(i, v)
    \/ \E v \in OptionsOf(NumberArgs) : setAuthApiSqliteCollectionPoolSize(i, v)
    \/ \E v \in StringArgs : setAuthApiSqliteSessionFilePath(i, v)
    \/ \E v \in OptionsOf(NumberArgs) : setAuthApiSqliteSessionPoolSize(i, v)
    \/ \E v \in OptionsOf(SecretArgs) : setAuthApiSessionSecret(i, v)
    \/ \E v \in OptionsOf(NumberArgs) : setAuthApiSessionTtlSeconds(i, v)

Next ==
    \/ DoSetEnv
    \/ DoDeleteEnv
    \/ DoConstruct("c1")
    \/ DoSetter("c1")

\* The life of one object: environment writes before and after its
\* construction, and setter calls on it.
Spec == Init /\ [][Next]_vars

NextPair == \E i \in Instances : DoConstruct(i) \/ DoSetter(i)

\* Two objects side by side: constructions and setter calls on either.
SpecPair == Init /\ [][NextPair]_vars

NextLoad == DoConstruct("c1")

\* Construction alone, from every environment of InitLoad.
SpecLoad == InitLoad /\ [][NextLoad]_vars

NextLoadPair == \E i \in Instances : DoConstruct(i)

\* Construction of two objects from one environment of InitLoad.
SpecLoadPair == InitLoad /\ [][NextLoadPair]_vars

\* ------------------------------------------------------------------------
\* Settings, by field
\* ------------------------------------------------------------------------

\* The variable the constructor loads each field from.
Loads ==
    { <<"domain", "DPS_DOMAIN">>,
      <<"apiPath", "DPS_API_PATH">>,
      <<"developmentMode", "DPS_DEVELOPMENT_MODE">>,
      <<"authApiSubdomain", "DPS_AUTH_API_SUBDOMAIN">>,
      <<"authApiPort", "DPS_AUTH_API_PORT">>,
      <<"authApiProtocol", "DPS_AUTH_API_PROTOCOL">>,
      <<"authApiInsecureCookie", "DPS_AUTH_API_INSECURE_COOKIE">>,
      <<"authApiSqliteMainFilePath", "DPS_AUTH_API_SQLITE_MAIN_FILE_PATH">>,
      <<"authApiSqliteMainPoolSize", "DPS_AUTH_API_SQLITE_MAIN_POOL_SIZE">>,
      <<"authApiSqliteCollectionFilePath", "DPS_AUTH_API_SQLITE_COLLECTION_FILE_PATH">>,
      <<"authApiSqliteCollectionPoolSize", "DPS_AUTH_API_SQLITE_COLLECTION_POOL_SIZE">>,
      <<"authApiSqliteSessionFilePath", "DPS_AUTH_API_SQLITE_SESSION_FILE_PATH">>,
      <<"authApiSqliteSessionPoolSize", "DPS_AUTH_API_SQLITE_SESSION_POOL_SIZE">>,
      <<"authApiSessionSecret", "DPS_AUTH_API_SESSION_SECRET">>,
      <<"authApiSessionTtlSeconds", "DPS_AUTH_API_SESSION_TTL_SECONDS">> }

FieldOfKey(k) == (CHOOSE p \in Loads : p[2] = k)[1]

KeyOfField(f) == (CHOOSE p \in Loads : p[1] = f)[2]

\* What the getter of field f returns on the object c, as an optional value:
\* Some(result), or the result itself where the getter returns T | undefined.
Returned(c, f) ==
    CASE f = "domain" -> Some(getDomain(c))
      [] f = "apiPath" -> Some(getApiPath(c))
      [] f = "developmentMode" -> Some(getDevelopmentMode(c))
      [] f = "authApiSubdomain" -> Some(getAuthApiSubdomain(c))
      [] f = "authApiPort" -> getAuthApiPort(c)
      [] f = "authApiProtocol" -> Some(getAuthApiProtocol(c))
      [] f = "authApiInsecureCookie" -> Some(getAuthApiInsecureCookie(c))
      [] f = "authApiSqliteMainFilePath" -> Some(getAuthApiSqliteMainFilePath(c))
      [] f = "authApiSqliteMainPoolSize" -> Some(getAuthApiSqliteMainPoolSize(c))
      [] f = "authApiSqliteCollectionFilePath" -> Some(getAuthApiSqliteCollectionFilePath(c))
      [] f = "authApiSqliteCollectionPoolSize" -> Some(getAuthApiSqliteCollectionPoolSize(c))
      [] f = "authApiSqliteSessionFilePath" -> Some(getAuthApiSqliteSessionFilePath(c))
      [] f = "authApiSqliteSessionPoolSize" -> Some(getAuthApiSqliteSessionPoolSize(c))
      [] f = "authApiSessionSecret" -> getAuthApiSessionSecret(c)
      [] f = "authApiSessionTtlSeconds" -> Some(getAuthApiSessionTtlSeconds(c))

\* The arguments the setter of field f is called with, as optional values.
ArgsOf(f) ==
    IF KeyOfField(f) \in BoolKeys THEN { Some(TRUE), Some(FALSE) }
    ELSE IF KeyOfField(f) \in NumberKeys THEN OptionsOf(NumberArgs)
    ELSE IF f = "authApiSessionSecret" THEN OptionsOf(SecretArgs)
    ELSE { Some(v) : v \in StringArgs }

\* The setter of field f called on the object i with the argument o.
CallSetter(i, f, o) ==
    CASE f = "domain" -> setDomain(i, ValueOf(o))
      [] f = "apiPath" -> setApiPath(i, ValueOf(o))
      [] f = "developmentMode" -> setDevelopmentMode(i, ValueOf(o))
      [] f = "authApiSubdomain" -> setAuthApiSubdomain(i, ValueOf(o))
      [] f = "authApiPort" -> setAuthApiPort(i, o)
      [] f = "authApiProtocol" -> setAuthApiProtocol(i, ValueOf(o))
      [] f = "authApiInsecureCookie" -> setAuthApiInsecureCookie(i, ValueOf(o))
      [] f = "authApiSqliteMainFilePath" -> setAuthApiSqliteMainFilePath(i, ValueOf(o))
      [] f = "authApiSqliteMainPoolSize" -> setAuthApiSqliteMainPoolSize(i, o)
      [] f = "authApiSqliteCollectionFilePath" ->
             setAuthApiSqliteCollectionFilePath(i, ValueOf(o))
      [] f = "authApiSqliteCollectionPoolSize" -> setAuthApiSqliteCollectionPoolSize(i, o)
      [] f = "authApiSqliteSessionFilePath" -> setAuthApiSqliteSessionFilePath(i, ValueOf(o))
      [] f = "authApiSqliteSessionPoolSize" -> setAuthApiSqliteSessionPoolSize(i, o)
      [] f = "authApiSessionSecret" -> setAuthApiSessionSecret(i, o)
      [] f = "authApiSessionTtlSeconds" -> setAuthApiSessionTtlSeconds(i, o)

\* ------------------------------------------------------------------------
\* Properties
\* ------------------------------------------------------------------------

\* C1: values are captured once at construction. A step that changes
\* process.env (a variable set, changed or deleted) leaves every getter result
\* of every object as it was, and a getter result of a constructed object
\* changes only in a step that is a setter call on that object.
C1_CapturedOnce ==
    [][ \A i \in Instances : Built(i) =>
            LET before == Getters(cfg[i])
                after == Getters(cfg[i])'
            IN  /\ env' # env => after = before
                /\ after # before => DoSetter(i) ]_vars

\* C1 witness: the environment holds a value its constructed object does not
\* show: DPS_DOMAIN was set after c1 was built from it.
C1_Witness ==
    /\ prefixOf["c1"] = Some("")
    /\ env["DPS_DOMAIN"] = Some(<<"s">>)
    /\ cfg["c1"].domain = Undefined

\* C5: a setter overrides without restriction. A call setX(v) with v a value
\* of X's type makes getX() return exactly v, whatever the field held, and
\* getX() of a constructed object changes in no step but a setX call on it.
C5_SetterOverrides ==
    [][ \A i \in Instances : Built(i) =>
            \A f \in Fields :
                /\ \A o \in ArgsOf(f) \ { Undefined } :
                       CallSetter(i, f, o) => Returned(cfg'[i], f) = o
                /\ Returned(cfg'[i], f) # Returned(cfg[i], f)
                       => \E o \in ArgsOf(f) : CallSetter(i, f, o) ]_vars

\* C5 witness: an environment-derived pool size (8) overwritten by 0, and
\* the getter returns 0.
C5_Witness ==
    /\ prefixOf["c1"] = Some("")
    /\ env["DPS_AUTH_API_SQLITE_MAIN_POOL_SIZE"] = Some(<<"8">>)
    /\ cfg["c1"].authApiSqliteMainPoolSize = Some(0)
    /\ getAuthApiSqliteMainPoolSize(cfg["c1"]) = 0

\* The defaults the documentation lists, by field.
DocumentedDefault(f) ==
    CASE f = "domain" ->
             Some(<<"d", "p", "s", ".", "l", "o", "c", "a", "l", "h", "o", "s", "t">>)
      [] f = "apiPath" -> Some(<<"a", "p", "i">>)
      [] f = "developmentMode" -> Some(FALSE)
      [] f = "authApiSubdomain" -> Some(<<"a", "u", "t", "h">>)
      [] f = "authApiPort" -> Undefined
      [] f = "authApiProtocol" -> Some(<<"h", "t", "t", "p", "s">>)
      [] f = "authApiInsecureCookie" -> Some(FALSE)
      [] f = "authApiSqliteMainFilePath" ->
             Some(<<"d", "a", "t", "a", "/", "m", "a", "i", "n", "-", "d", "e", "v", "e",
                    "l", "o", "p", "m", "e", "n", "t", ".", "d", "b">>)
      [] f = "authApiSqliteMainPoolSize" -> Some(1)
      [] f = "authApiSqliteCollectionFilePath" ->
             Some(<<"d", "a", "t", "a", "/", "c", "o", "l", "l", "e", "c", "t", "i", "o",
                    "n", "-", "d", "e", "v", "e", "l", "o", "p", "m", "e", "n", "t", ".",
                    "d", "b">>)
      [] f = "authApiSqliteCollectionPoolSize" -> Some(1)
      [] f = "authApiSqliteSessionFilePath" ->
             Some(<<"d", "a", "t", "a", "/", "s", "e", "s", "s", "i", "o", "n", "-", "d",
                    "e", "v", "e", "l", "o", "p", "m", "e", "n", "t", ".", "d", "b">>)
      [] f = "authApiSqliteSessionPoolSize" -> Some(1)
      [] f = "authApiSessionSecret" -> Undefined
      [] f = "authApiSessionTtlSeconds" -> Some(1209600)

\* C6: in every reachable state each getter of a constructed object returns
\* the stored value if the field is set and the documented default otherwise
\* (undefined for authApiPort and authApiSessionSecret).
C6_StoredOrDefault ==
    \A i \in Instances : Built(i) =>
        \A f \in Fields :
            Returned(cfg[i], f) =
                IF cfg[i][f] # Undefined THEN cfg[i][f] ELSE DocumentedDefault(f)

\* C6 witness: one field holds a falsy stored value (pool size 0), another
\* was reset by a setter called with undefined, the rest are unset.
C6_Witness ==
    /\ Built("c1")
    /\ calls = 2
    /\ cfg["c1"].authApiSqliteMainPoolSize = Some(0)
    /\ cfg["c1"].authApiSessionTtlSeconds = Undefined
    /\ cfg["c1"].domain = Undefined

\* The port segment of the URL: empty exactly when the port is absent or 0.
PortSegment(port) ==
    IF port = Undefined \/ port = Some(0) THEN <<>>
    ELSE <<":">> \o NumberToString(ValueOf(port))

\* C7: in every reachable state getAuthApiUrl() is
\* <protocol>://<subdomain>.<domain><port-segment>/<apiPath>, built from what
\* the five getters return at that moment, unescaped.
C7_UrlComposition ==
    \A i \in Instances : Built(i) =>
        getAuthApiUrl(cfg[i]) =
            getAuthApiProtocol(cfg[i]) \o <<":", "/", "/">>
                \o getAuthApiSubdomain(cfg[i]) \o <<".">> \o getDomain(cfg[i])
                \o PortSegment(getAuthApiPort(cfg[i])) \o <<"/">> \o getApiPath(cfg[i])

\* C7 witness: port 3000 set and an empty protocol set, the rest defaults:
\* the URL is "://auth.dps.localhost:3000/api".
C7_Witness ==
    /\ Built("c1")
    /\ cfg["c1"].authApiPort = Some(3000)
    /\ cfg["c1"].authApiProtocol = Some(<<>>)
    /\ getAuthApiUrl(cfg["c1"]) =
           <<":", "/", "/", "a", "u", "t", "h", ".", "d", "p", "s", ".", "l", "o", "c",
             "a", "l", "h", "o", "s", "t", ":", "3", "0", "0", "0", "/", "a", "p", "i">>

\* C9 as claimed: the secret bytes are absent exactly when the secret is, and
\* otherwise decode back to exactly the secret, whatever string it is.
C9_RoundTripAnyString ==
    \A i \in Instances : Built(i) =>
        LET secret == getAuthApiSessionSecret(cfg[i])
            bytes == getAuthApiSessionSecretBytes(cfg[i])
        IN  /\ bytes = Undefined <=> secret = Undefined
            /\ secret # Undefined => TextDecode(ValueOf(bytes)) = ValueOf(secret)

\* C9: the secret bytes are absent exactly when the secret is, and otherwise
\* decode back to exactly the secret the getter returns at that moment,
\* provided the secret holds no unpaired surrogate and does not begin with
\* U+FEFF; they are computed from the current secret on every call.
C9_RoundTrip ==
    \A i \in Instances : Built(i) =>
        LET secret == getAuthApiSessionSecret(cfg[i])
            bytes == getAuthApiSessionSecretBytes(cfg[i])
        IN  /\ bytes = Undefined <=> secret = Undefined
            /\ secret # Undefined /\ IsWellFormed(ValueOf(secret))
                   /\ ~StartsWithBOM(ValueOf(secret))
                   => TextDecode(ValueOf(bytes)) = ValueOf(secret)

\* C9 witness: a secret of two-, three- and four-byte characters is set, and
\* its bytes are the nine bytes of its UTF-8 encoding.
C9_Witness ==
    /\ Built("c1")
    /\ cfg["c1"].authApiSessionSecret = Some(<<"U+00E9", "U+20AC", "U+D83D", "U+DE00">>)
    /\ getAuthApiSessionSecretBytes(cfg["c1"]) =
           Some(<<195, 169, 226, 130, 172, 240, 159, 152, 128>>)

\* C10: settings are independent and objects share no state. A field of an
\* object changes only in a call of that field's setter on that object (or in
\* the object's construction), a step changes the fields of one object at
\* most and one field at most of a constructed object, and neither setters nor
\* constructions write process.env.
C10_Frame ==
    [][ /\ env' = env
        /\ \A i \in Instances : \A f \in Fields :
               cfg'[i][f] # cfg[i][f] =>
                   IF Built(i) THEN \E o \in ArgsOf(f) : CallSetter(i, f, o)
                   ELSE \E envPrefix \in Prefixes : Construct(i, envPrefix)
        /\ \A i, j \in Instances : i # j /\ cfg'[i] # cfg[i] => cfg'[j] = cfg[j]
        /\ \A i \in Instances :
               Built(i) => Cardinality({ f \in Fields : cfg'[i][f] # cfg[i][f] }) <= 1 ]_vars

\* C10 witness: two objects built with the same prefix from the same
\* environment, and a setter called on c1 alone: they differ in that field.
C10_Witness ==
    /\ prefixOf["c1"] = Some("")
    /\ prefixOf["c2"] = Some("")
    /\ cfg["c1"].domain = Some(<<"v", "1">>)
    /\ cfg["c2"] = NewDpsConfig(env, "")
    /\ cfg["c2"].domain = Undefined

\* e with every variable not named prefix + key removed.
OwnVariables(e, prefix) ==
    LET own == { prefix \o k : k \in Keys }
    IN  [name \in EnvNames |-> IF name \in own THEN e[name] ELSE Undefined]

\* C2: the boolean loader is three-way, for both boolean settings: an absent
\* variable leaves the field unset (the getter returns false), the value "Y"
\* stores true, and every other present value, the empty string included,
\* stores false.
C2_BoolThreeWay ==
    \A i \in Instances : Built(i) =>
        \A k \in BoolKeys :
            LET own == env[ValueOf(prefixOf[i]) \o k]
                stored == cfg[i][FieldOfKey(k)]
            IN  /\ own = Undefined =>
                       stored = Undefined /\ Returned(cfg[i], FieldOfKey(k)) = Some(FALSE)
                /\ own = Some(<<"Y">>) => stored = Some(TRUE)
                /\ own # Undefined /\ own # Some(<<"Y">>) => stored = Some(FALSE)

\* C2 witness: DPS_DEVELOPMENT_MODE is "" and its VITE_ twin is "Y"; the
\* object built with prefix "" stores false, not unset and not true.
C2_Witness ==
    /\ env["DPS_DEVELOPMENT_MODE"] = Some(<<>>)
    /\ env["VITE_DPS_DEVELOPMENT_MODE"] = Some(<<"Y">>)
    /\ prefixOf["c1"] = Some("")
    /\ cfg["c1"].developmentMode = Some(FALSE)

\* A base-10 integer numeral: an optional minus sign, then digits only.
IsNumeral(s) ==
    LET body == IF s # <<>> /\ Head(s) = "-" THEN Tail(s) ELSE s
    IN  body # <<>> /\ \A n \in DOMAIN body : IsDigit(body[n])

NumeralValue(s) ==
    IF Head(s) = "-" THEN 0 - DigitsValue(Tail(s), 0) ELSE DigitsValue(s, 0)

\* C3: a malformed numeric value is treated as absent. For every integer
\* setting the stored field is N when the variable holds the base-10 numeral
\* of N, and unset when the variable is absent, empty or holds anything else,
\* such as "not-a-number", "8abc" or "3.5".
C3_MalformedIsAbsent ==
    \A i \in Instances : Built(i) =>
        \A k \in NumberKeys :
            LET own == env[ValueOf(prefixOf[i]) \o k]
                stored == cfg[i][FieldOfKey(k)]
            IN  IF own # Undefined /\ IsNumeral(ValueOf(own))
                THEN stored = Some(NumeralValue(ValueOf(own)))
                ELSE stored = Undefined

\* C4 as claimed: for every setting, an object built with the variable set
\* to "" has the field unset, and the same fields and getter results as an
\* object built with the variable absent and the rest of the environment equal.
C4_EmptyIsAbsentEverywhere ==
    \A i \in Instances : Built(i) =>
        \A k \in Keys :
            LET prefix == ValueOf(prefixOf[i])
                other == NewDpsConfig([env EXCEPT ![prefix \o k] = Undefined], prefix)
            IN  env[prefix \o k] = Some(<<>>) =>
                    /\ cfg[i][FieldOfKey(k)] = Undefined
                    /\ cfg[i] = other
                    /\ Getters(cfg[i]) = Getters(other)

\* C4: an object built with a setting's variable set to "" returns from every
\* getter, getAuthApiUrl and getAuthApiSessionSecretBytes included, what an
\* object built with the variable absent returns, and stores the same in
\* every other field. For a string or integer setting the field itself is
\* unset in both; for a boolean setting it is false under "" and unset under
\* the absent variable.
C4_EmptyIsAbsent ==
    \A i \in Instances : Built(i) =>
        \A p \in Loads :
            LET prefix == ValueOf(prefixOf[i])
                field == p[1]
                name == prefix \o p[2]
                other == NewDpsConfig([env EXCEPT ![name] = Undefined], prefix)
            IN  env[name] = Some(<<>>) =>
                    /\ Getters(cfg[i]) = Getters(other)
                    /\ \A f \in Fields \ { field } : cfg[i][f] = other[f]
                    /\ other[field] = Undefined
                    /\ cfg[i][field] = IF p[2] \in BoolKeys THEN Some(FALSE) ELSE Undefined

\* C4 witness: an object built with DPS_AUTH_API_INSECURE_COOKIE = "" stores
\* false, and its getter returns what it returns for the absent variable.
C4_Witness ==
    /\ env["DPS_AUTH_API_INSECURE_COOKIE"] = Some(<<>>)
    /\ prefixOf["c1"] = Some("")
    /\ cfg["c1"].authApiInsecureCookie = Some(FALSE)
    /\ getAuthApiInsecureCookie(cfg["c1"]) =
           getAuthApiInsecureCookie(
               NewDpsConfig([env EXCEPT !["DPS_AUTH_API_INSECURE_COOKIE"] = Undefined], ""))

\* C8: prefix isolation. An object built with prefix P holds what the
\* constructor yields from the variables named P + key alone, whatever the
\* other variables hold: an unset field where its own variable is absent, and
\* the value of its own variable where that is a non-empty string setting.
C8_PrefixIsolation ==
    \A i \in Instances : Built(i) =>
        LET prefix == ValueOf(prefixOf[i])
        IN  /\ cfg[i] = NewDpsConfig(OwnVariables(env, prefix), prefix)
            /\ \A p \in Loads :
                   LET own == env[prefix \o p[2]]
                   IN  /\ own = Undefined => cfg[i][p[1]] = Undefined
                       /\ p[2] \in StringKeys /\ own # Undefined /\ own # Some(<<>>)
                              => cfg[i][p[1]] = own

\* C8 witness: VITE_DPS_DOMAIN and DPS_DOMAIN hold different values, and the
\* object built with "VITE_" and the one built with "" each hold their own.
C8_Witness ==
    /\ env["VITE_DPS_DOMAIN"] = Some(<<"v", "i", "t", "e", ".", "l", "o", "c", "a", "l">>)
    /\ env["DPS_DOMAIN"] = Some(<<"s">>)
    /\ prefixOf["c1"] = Some("VITE_")
    /\ prefixOf["c2"] = Some("")
    /\ getDomain(cfg["c1"]) = <<"v", "i", "t", "e", ".", "l", "o", "c", "a", "l">>
    /\ getDomain(cfg["c2"]) = <<"s">>

====
